---- MODULE Spec2Model ----
(***************************************************************************)
(* Model of chord_trainer.py: the ChordRecognitionApp playback engine      *)
(* (next_chord / replay_chord / play_chord / _play and its stream          *)
(* callback) together with the settings that feed it.                      *)
(*                                                                         *)
(* Number representation.  The program computes with floats; the model     *)
(* computes on an integer grid:                                            *)
(*   - frequencies are whole Hz;                                           *)
(*   - a phase is counted in 1/fs of a turn, so "2*pi" is fs units and     *)
(*     2*pi*f*(frames/fs) is f*frames units;                               *)
(*   - t_cur is counted in frames (1/fs of a second);                      *)
(*   - duration and the wall clock of sd.sleep are counted in ticks of     *)
(*     100 ms;                                                             *)
(*   - amplitudes, decay constants, envelopes, sines and norm are          *)
(*     fixed-point with the scales AmpScale, TauScale, EnvScale, SinScale  *)
(*     and NormScale, divisions rounding down;                             *)
(*   - a value numpy may make inf or nan is a record [k, v] with           *)
(*     k in {"num", "inf", "nan"}.                                         *)
(***************************************************************************)
EXTENDS Integers, Sequences, FiniteSets, TLC

VARIABLES
    settings,           \* self.settings (dict loaded from user_settings.json)
    attrs,              \* the attributes update_variables sets from settings
    chords,             \* self.chords, the loaded chord database
    flat_indices,       \* self.flat_indices, the chords of the preset grid
    current_chord_idx,  \* self.current_chord_idx, 0 for None
    base_freq,          \* self.base_freq, 0 before the first next_chord
    settings_popup,     \* TRUE while the settings popup exists
    sess,               \* one record per thread play_chord started
    saves,              \* how many times _save_settings has replaced the settings
    save_error,         \* TRUE while the "Save error" box of _save_settings is up
    tooltips,           \* per widget with a ToolTip: its _id (0 for None) and tw
    last_after,         \* Tk: how many after() timers have been created (their ids)
    timers,             \* Tk: the pending after() timers, each with its id and widget
    toplevels           \* Tk: per widget, how many tooltip Toplevel windows exist

\* the state of the tooltips and of Tk's timers and windows for them
tipvars == <<tooltips, last_after, timers, toplevels>>

\* the state of the application and its session threads
appvars == <<settings, attrs, chords, flat_indices, current_chord_idx, base_freq,
             settings_popup, sess, saves, save_error>>

vars == <<settings, attrs, chords, flat_indices, current_chord_idx, base_freq,
          settings_popup, sess, saves, save_error, tooltips, last_after, timers,
          toplevels>>

----------------------------------------------------------------------------
(* Bounds of the model *)

\* at most this many play_chord calls (session threads) where sessions overlap
MaxSessions == 2

\* at most this many play_chord calls where sessions come one after another
MaxTurns == 1

\* at most this many stream callbacks per session
MaxBlocks == 2

\* the same bound where sessions overlap
MaxBlocksOverlap == 1

\* at most this many successful saves of the settings popup
MaxSaves == 1

\* this many widgets carry a ToolTip
NumWidgets == 2

\* at most this many after() timers are created
MaxAfter == 3

----------------------------------------------------------------------------
(* Fixed-point scales and program constants *)

AmpScale == 120

TauScale == 12

EnvScale == 100

SinScale == 100

NormScale == 1000

\* 0.3, in 1/1000
TargetPeak == 300

\* the +100 ms of sd.sleep, in clock ticks of 100 ms
MarginTicks == 1

\* one second (the 1000 of duration * 1000), in clock ticks of 100 ms
TicksPerSecond == 10

\* the stream callback's frame counts
FrameCounts == {1, 2}

----------------------------------------------------------------------------
(* Arithmetic helpers *)

RECURSIVE Pow(_, _)
Pow(b, e) == IF e <= 0 THEN 1 ELSE b * Pow(b, e - 1)

Isqrt(n) == CHOOSE r \in 0..n : r * r <= n /\ (r + 1) * (r + 1) > n

RECURSIVE SeqSum(_)
SeqSum(s) == IF s = <<>> THEN 0 ELSE Head(s) + SeqSum(Tail(s))

RECURSIVE Concat(_)
Concat(ss) == IF ss = <<>> THEN <<>> ELSE Head(ss) \o Concat(Tail(ss))

Num(v) == [k |-> "num", v |-> v]

Inf == [k |-> "inf", v |-> 0]

NaN == [k |-> "nan", v |-> 0]

\* float division x / y of a number by a sum (numpy: x / 0.0 is inf, with a warning)
FDiv(x, y) == IF y = 0 THEN (IF x = 0 THEN NaN ELSE Inf) ELSE Num(x \div y)

\* float product of norm and a finite block value, rescaled by NormScale
FMul(n, b) ==
    IF n.k = "num" THEN Num((n.v * b) \div NormScale)
    ELSE IF n.k = "inf" /\ b # 0 THEN Inf
    ELSE NaN

\* round(EnvScale * exp(-q/2)), q = 0, 1, 2, ...
ExpTable == <<100, 61, 37, 22, 14, 8, 5, 3, 2, 1>>

\* np.exp(-(num/den)) for num >= 0, den > 0
ExpNeg(num, den) ==
    LET q == (2 * num) \div den
    IN  IF q + 1 <= Len(ExpTable) THEN ExpTable[q + 1] ELSE 0

\* round(SinScale * sin(2*pi*x/10)), x = 0..9
SinTable == <<0, 59, 95, 95, 59, 0, -59, -95, -95, -59>>

\* np.sin of an angle of x/fs turns
Sin(x, fs) == SinTable[(((x * 10) \div fs) % 10) + 1]

----------------------------------------------------------------------------
(* The files the program loads *)

\* chord_databases/<name>.json: each chord carries its ratio expressions
ChordDatabases ==
    [a |-> << [ratios |-> <<"1", "3/2">>], [ratios |-> <<"2">>] >>,
     b |-> << [ratios |-> <<"1", "abc">>], [ratios |-> <<"3/2">>] >>]

\* user_settings.json as shipped: the values update_variables turns into attributes
DefaultSettings ==
    [chord_database_name |-> "a", n_harmonics |-> 2, fs |-> 10, duration |-> 1,
     rolloff_coeff |-> 1, decay_time |-> 2, decay_exponent |-> 1,
     f0 |-> 2, B0 |-> 0, beta |-> 1, jitter |-> 0,
     random_w |-> 1, random_h |-> 1, pitch |-> 2, min_pitch |-> 2, max_pitch |-> 4]

\* what the user may have typed into the settings popup when Save is pressed
SettingsChoices ==
    { DefaultSettings,
      [DefaultSettings EXCEPT !.chord_database_name = "b", !.n_harmonics = 1,
                              !.rolloff_coeff = 2, !.decay_time = 1,
                              !.decay_exponent = 0, !.B0 = 1, !.jitter = 1],
      [DefaultSettings EXCEPT !.n_harmonics = 0] }

\* Python's eval of a ratio expression: a positive rational, or an exception
EvalRatio(r) ==
    CASE r = "1"   -> [ok |-> TRUE,  num |-> 1, den |-> 1]
      [] r = "2"   -> [ok |-> TRUE,  num |-> 2, den |-> 1]
      [] r = "3/2" -> [ok |-> TRUE,  num |-> 3, den |-> 2]
      [] OTHER     -> [ok |-> FALSE, num |-> 0, den |-> 1]

\* random.sample(all_idxs, w*h) laid out row by row: any w*h distinct indices, in any order
GridChoices(cs, w, h) ==
    { g \in [1..(w * h) -> 1..Len(cs)] : \A x, y \in 1..(w * h) : x # y => g[x] # g[y] }

\* random.uniform(min_pitch, max_pitch), on the grid of whole Hz
UniformPitch(lo, hi) == {lo, hi}

\* np.random.uniform(-jitter, +jitter, size=n): one draw per partial
RECURSIVE JitterDraws(_, _)
JitterDraws(j, n) ==
    IF n <= 0 THEN {<<>>}
    ELSE { <<u>> \o rest : u \in (0 - j)..j, rest \in JitterDraws(j, n - 1) }

----------------------------------------------------------------------------
(* The synthesis formulas of _play *)

\* calc_B: B0 * (f / f0) ** beta, as the fraction num/den
calc_B(at, f) == [num |-> at.B0 * Pow(f, at.beta), den |-> Pow(at.f0, at.beta)]

\* f_k = pitch * k * sqrt(1 + B * k**2), rounded down to whole Hz
StretchedFreq(pitch, k, B) ==
    Isqrt(((pitch * k) * (pitch * k) * (B.den + B.num * k * k)) \div B.den)

\* amp = 1.0 / k**p
Amplitude(k, p) == AmpScale \div Pow(k, p)

\* tauk = tau0 / k**d
DecayConstant(k, tau0, d) == (tau0 * TauScale) \div Pow(k, d)

\* a loop body whose harmonic index stops one short: np.arange(1, n_harmonics)
RatioPartials_OneShort(at, bf, ev, jitter, p, tau0, d, draws) ==
    LET pitch == (bf * ev.num) \div ev.den
        B     == calc_B(at, pitch)
        n     == IF at.n_harmonics > 1 THEN at.n_harmonics - 1 ELSE 0
        pure  == [k \in 1..n |-> StretchedFreq(pitch, k, B)]
    IN  [f    |-> [k \in 1..n |-> IF jitter > 0 THEN pure[k] + draws[k] ELSE pure[k]],
         pure |-> pure,
         harm |-> [k \in 1..n |-> pitch * k],
         amp  |-> [k \in 1..n |-> Amplitude(k, p)],
         tau  |-> [k \in 1..n |-> DecayConstant(k, tau0, d)]]

\* one pass of the loop "for r in ratios", after eval(r) succeeded:
\* the three arrays of the ratio for k = 1..n_harmonics (pure and harm are
\* f_k before the jitter and pitch * k)
RatioPartials(at, bf, ev, jitter, p, tau0, d, draws) ==
    LET pitch == (bf * ev.num) \div ev.den
        B     == calc_B(at, pitch)
        n     == IF at.n_harmonics > 0 THEN at.n_harmonics ELSE 0
        pure  == [k \in 1..n |-> StretchedFreq(pitch, k, B)]
    IN  [f    |-> [k \in 1..n |-> IF jitter > 0 THEN pure[k] + draws[k] ELSE pure[k]],
         pure |-> pure,
         harm |-> [k \in 1..n |-> pitch * k],
         amp  |-> [k \in 1..n |-> Amplitude(k, p)],
         tau  |-> [k \in 1..n |-> DecayConstant(k, tau0, d)]]

\* norm = 0.3 / np.sum(amp_list)
Norm(amp_list) == FDiv(TargetPeak * NormScale, SeqSum(amp_list))

\* sd.sleep(int(duration * 1000) + 100), in ticks of 100 ms
SleepTicks(duration) == duration + MarginTicks

\* the frames that make up duration: duration * fs, duration being in ticks
DurationFrames(duration, fs) == (duration * fs) \div TicksPerSecond

----------------------------------------------------------------------------
(* The stream callback *)

\* np.sum(amp * env * sines, axis=0)[i] for the state st of one session
BlockSample(st, i) ==
    LET term(j) == st.amp_list[j]
                   * ExpNeg((st.t_cur + i) * TauScale, st.fs * st.tau_list[j])
                   * Sin(st.phases[j] + st.f_list[j] * i, st.fs)
        terms == [j \in 1..Len(st.f_list) |-> term(j)]
    IN  SeqSum(terms) \div (EnvScale * SinScale)

\* a callback that writes the block but forgets "phases += ..."
CallbackBody_StalePhase(st, frames, status) ==
    [st EXCEPT !.out        = [i \in 1..frames |-> FMul(st.norm, BlockSample(st, i - 1))],
               !.t_cur      = st.t_cur + frames,
               !.blocks     = st.blocks + 1,
               !.lastStatus = status]

\* a callback that returns right after printing when status is set
CallbackBody_AbortOnStatus(st, frames, status) ==
    IF status
    THEN [st EXCEPT !.blocks = st.blocks + 1, !.lastStatus = status]
    ELSE [st EXCEPT !.out        = [i \in 1..frames |->
                                       FMul(st.norm, BlockSample(st, i - 1))],
                    !.phases     = [j \in 1..Len(st.f_list) |->
                                       (st.phases[j] + st.f_list[j] * frames) % st.fs],
                    !.t_cur      = st.t_cur + frames,
                    !.blocks     = st.blocks + 1,
                    !.lastStatus = status]

\* a callback without "phases %= 2 * np.pi"
CallbackBody_NoWrap(st, frames, status) ==
    [st EXCEPT !.out        = [i \in 1..frames |-> FMul(st.norm, BlockSample(st, i - 1))],
               !.phases     = [j \in 1..Len(st.f_list) |->
                                  st.phases[j] + st.f_list[j] * frames],
               !.t_cur      = st.t_cur + frames,
               !.blocks     = st.blocks + 1,
               !.lastStatus = status]

\* a callback that sets t_cur to the length of its block instead of adding it
CallbackBody_TimeOfBlock(st, frames, status) ==
    [st EXCEPT !.out        = [i \in 1..frames |-> FMul(st.norm, BlockSample(st, i - 1))],
               !.phases     = [j \in 1..Len(st.f_list) |->
                                  (st.phases[j] + st.f_list[j] * frames) % st.fs],
               !.t_cur      = frames,
               !.blocks     = st.blocks + 1,
               !.lastStatus = status]

\* a callback that perturbs the frequencies again at every block
CallbackBody_JitterPerBlock(st, frames, status) ==
    [st EXCEPT !.out        = [i \in 1..frames |-> FMul(st.norm, BlockSample(st, i - 1))],
               !.phases     = [j \in 1..Len(st.f_list) |->
                                  (st.phases[j] + st.f_list[j] * frames) % st.fs],
               !.f_list     = [j \in 1..Len(st.f_list) |->
                                  IF st.jitter > 0 THEN st.f_list[j] + st.jitter
                                  ELSE st.f_list[j]],
               !.t_cur      = st.t_cur + frames,
               !.blocks     = st.blocks + 1,
               !.lastStatus = status]

\* the body of callback(outdata, frames, time, status) on one session's closure
CallbackBody(st, frames, status) ==
    [st EXCEPT !.out        = [i \in 1..frames |-> FMul(st.norm, BlockSample(st, i - 1))],
               !.phases     = [j \in 1..Len(st.f_list) |->
                                  (st.phases[j] + st.f_list[j] * frames) % st.fs],
               !.t_cur      = st.t_cur + frames,
               !.blocks     = st.blocks + 1,
               !.lastStatus = status]

\* a callback whose phases live in one place shared by all sessions (an
\* attribute of the application instead of a local of _play)
callback_SharedPhases(ss, s, frames, status) ==
    LET mine == CallbackBody(ss[s], frames, status)
    IN  [t \in DOMAIN ss |->
            IF t = s THEN mine
            ELSE IF ss[t].pc = "running" /\ Len(ss[t].phases) = Len(mine.phases)
                 THEN [ss[t] EXCEPT !.phases = mine.phases]
                 ELSE ss[t]]

\* the callback of session s among all sessions: it touches its own closure only
callback(ss, s, frames, status) ==
    [ss EXCEPT ![s] = CallbackBody(ss[s], frames, status)]

----------------------------------------------------------------------------
(* Sessions: one per threading.Thread(target=self._play, args=(ratios,)) *)

\* the frame of _play before its first statement has run.  Four fields are
\* history, not program state: trig (the attributes and base_freq when play_chord
\* was called), hs (the n_harmonics each loop iteration read), pure_list (the
\* frequencies before jitter was added) and harm_list (the harmonics pitch * k
\* before stretching)
NewSession(ratios, at, bf) ==
    [pc |-> "start", ratios |-> ratios, i |-> 1,
     fs |-> 0, jitter |-> 0, p |-> 0, tau0 |-> 0, d |-> 0, duration |-> 0,
     f_list |-> <<>>, amp_list |-> <<>>, tau_list |-> <<>>,
     pure_list |-> <<>>, harm_list |-> <<>>, hs |-> <<>>,
     norm |-> Num(0), phases |-> <<>>, t_cur |-> 0,
     out |-> <<>>, blocks |-> 0, lastStatus |-> FALSE, wall |-> 0, err |-> "",
     trig |-> [attrs |-> at, base_freq |-> bf]]

\* the record of a thread whose _play has returned or raised: the frame, the
\* closure, the arrays and the stream are gone
Released(pc, err) ==
    [NewSession(<<>>, DefaultSettings, 0) EXCEPT !.pc = pc, !.err = err]

\* a play_chord that stops what is playing before it starts the new thread
play_chord_StopsRunning(ss, ratios, at, bf) ==
    Append([t \in DOMAIN ss |->
               IF ss[t].pc = "running" THEN Released("closed", "") ELSE ss[t]],
           NewSession(ratios, at, bf))

\* play_chord: start a daemon thread on _play and return at once
play_chord(ss, ratios, at, bf) == Append(ss, NewSession(ratios, at, bf))

Sessions == 1..Len(sess)

Widgets == 1..NumWidgets

Range(f) == { f[x] : x \in DOMAIN f }

\* the tooltip loop of next_chord evaluates every ratio of every chord of the grid
GridEvalFails(cs, grid) ==
    \E x \in DOMAIN grid : \E y \in DOMAIN cs[grid[x]].ratios :
        ~EvalRatio(cs[grid[x]].ratios[y]).ok

----------------------------------------------------------------------------
Init ==
    /\ settings = DefaultSettings
    /\ attrs = settings
    /\ chords = ChordDatabases[settings.chord_database_name]
    /\ flat_indices \in GridChoices(chords, settings.random_w, settings.random_h)
    /\ current_chord_idx = 0
    /\ base_freq = 0
    /\ settings_popup = FALSE
    /\ sess = <<>>
    /\ saves = 0
    /\ save_error = FALSE
    /\ tooltips = [w \in Widgets |-> [_id |-> 0, tw |-> FALSE]]
    /\ last_after = 0
    /\ timers = {}
    /\ toplevels = [w \in Widgets |-> 0]

----------------------------------------------------------------------------
(* Main-thread handlers *)

\* next_chord: pick chord and base frequency, rebuild the buttons and their
\* tooltips (which evaluates the ratios), then play
NextChord(room) ==
    /\ ~GridEvalFails(chords, flat_indices) => room
    /\ \E idx \in Range(flat_indices) :
       \E bf \in (IF attrs.pitch # 0
                  THEN UniformPitch(attrs.min_pitch, attrs.max_pitch)
                  ELSE {attrs.pitch}) :
          /\ current_chord_idx' = idx
          /\ base_freq' = bf
          /\ sess' = IF GridEvalFails(chords, flat_indices)
                     THEN sess
                     ELSE play_chord(sess, chords[idx].ratios, attrs, bf)
    /\ UNCHANGED <<settings, attrs, chords, flat_indices, settings_popup, saves, save_error, tipvars>>

\* a replay_chord without the "is not None" test, None indexing like -1 does:
\* it plays the last chord of the database
ReplayChord_NoChordTest(room) ==
    /\ ~settings_popup
    /\ room
    /\ sess' = play_chord(sess,
                          chords[IF current_chord_idx # 0 THEN current_chord_idx
                                 ELSE Len(chords)].ratios,
                          attrs, base_freq)
    /\ UNCHANGED <<settings, attrs, chords, flat_indices, current_chord_idx,
                   base_freq, settings_popup, saves, save_error, tipvars>>

\* replay_chord: the Replay button (unreachable while the modal popup holds the grab)
ReplayChord(room) ==
    /\ ~settings_popup
    /\ current_chord_idx # 0 => room
    /\ sess' = IF current_chord_idx # 0
               THEN play_chord(sess, chords[current_chord_idx].ratios, attrs, base_freq)
               ELSE sess
    /\ UNCHANGED <<settings, attrs, chords, flat_indices, current_chord_idx,
                   base_freq, settings_popup, saves, save_error, tipvars>>

\* show_settings_popup
ShowSettingsPopup ==
    /\ ~settings_popup
    /\ saves < MaxSaves
    /\ settings_popup' = TRUE
    /\ UNCHANGED <<settings, attrs, chords, flat_indices, current_chord_idx,
                   base_freq, sess, saves, save_error, tipvars>>

\* a _save_settings that assigns self.settings and runs update_variables before
\* it writes the file
SaveSettings_AssignBeforeWrite ==
    /\ settings_popup
    /\ ~save_error
    /\ \E new \in SettingsChoices, written \in BOOLEAN :
          IF ~written
          THEN /\ save_error' = TRUE
               /\ settings' = new
               /\ attrs' = new
               /\ UNCHANGED <<chords, flat_indices, settings_popup, saves>>
          ELSE /\ settings' = new
               /\ attrs' = new
               /\ chords' = ChordDatabases[new.chord_database_name]
               /\ settings_popup' = FALSE
               /\ flat_indices' \in GridChoices(chords', new.random_w, new.random_h)
               /\ saves' = saves + 1
               /\ UNCHANGED save_error
    /\ UNCHANGED <<current_chord_idx, base_freq, sess, tipvars>>

\* _save_settings: write the file; if that fails show the error box and return;
\* on success replace settings, attributes, database and grid and close the popup
SaveSettings ==
    /\ settings_popup
    /\ ~save_error
    /\ \E new \in SettingsChoices, written \in BOOLEAN :
          IF ~written
          THEN /\ save_error' = TRUE
               /\ UNCHANGED <<settings, attrs, chords, flat_indices, settings_popup,
                              saves>>
          ELSE /\ settings' = new
               /\ attrs' = new
               /\ chords' = ChordDatabases[new.chord_database_name]
               /\ settings_popup' = FALSE
               /\ flat_indices' \in GridChoices(chords', new.random_w, new.random_h)
               /\ saves' = saves + 1
               /\ UNCHANGED save_error
    /\ UNCHANGED <<current_chord_idx, base_freq, sess, tipvars>>

\* the user closes the "Save error" box: showerror returns and _save_settings
\* returns with it
DismissSaveError ==
    /\ save_error
    /\ save_error' = FALSE
    /\ UNCHANGED <<settings, attrs, chords, flat_indices, current_chord_idx,
                   base_freq, settings_popup, sess, saves, tipvars>>

----------------------------------------------------------------------------
(* The thread of one session: _play *)

\* fs, jitter, p, tau0, d, duration = self....
T_ReadParams(s) ==
    /\ sess[s].pc = "start"
    /\ sess' = [sess EXCEPT ![s] = [@ EXCEPT !.pc = "build",
                                             !.fs = attrs.fs,
                                             !.jitter = attrs.jitter,
                                             !.p = attrs.rolloff_coeff,
                                             !.tau0 = attrs.decay_time,
                                             !.d = attrs.decay_exponent,
                                             !.duration = attrs.duration]]
    /\ UNCHANGED <<settings, attrs, chords, flat_indices, current_chord_idx,
                   base_freq, settings_popup, saves, save_error, tipvars>>

\* one iteration of "for r in ratios": eval(r) may raise, which ends the thread.
\* f_list, amp_list and tau_list hold the arrays appended so far end to end, which
\* is what np.concatenate makes of them after the loop
T_BuildRatio(s) ==
    LET st == sess[s]
        ev == EvalRatio(st.ratios[st.i])
        n  == IF attrs.n_harmonics > 0 THEN attrs.n_harmonics ELSE 0
    IN  /\ st.pc = "build"
        /\ st.i <= Len(st.ratios)
        /\ IF ~ev.ok
           THEN sess' = [sess EXCEPT ![s] = Released("error", "NameError")]
           ELSE \E draws \in JitterDraws(IF st.jitter > 0 THEN st.jitter ELSE 0, n) :
                  LET rp == RatioPartials(attrs, base_freq, ev, st.jitter, st.p,
                                          st.tau0, st.d, draws)
                  IN  sess' = [sess EXCEPT ![s] =
                                 [@ EXCEPT !.i = st.i + 1,
                                           !.f_list = st.f_list \o rp.f,
                                           !.pure_list = st.pure_list \o rp.pure,
                                           !.harm_list = st.harm_list \o rp.harm,
                                           !.hs = Append(st.hs, attrs.n_harmonics),
                                           !.amp_list = st.amp_list \o rp.amp,
                                           !.tau_list = st.tau_list \o rp.tau]]
        /\ UNCHANGED <<settings, attrs, chords, flat_indices, current_chord_idx,
                       base_freq, settings_popup, saves, save_error, tipvars>>

\* an opening whose failure takes the other streams down with it (a handler
\* that calls sd.stop() on the shared device)
T_OpenStream_FailureStopsAll(s) ==
    LET st == sess[s]
    IN  /\ st.pc = "build"
        /\ st.i > Len(st.ratios)
        /\ \E opened \in BOOLEAN :
              sess' = IF Len(st.ratios) = 0
                      THEN [sess EXCEPT ![s] = Released("error", "ValueError")]
                      ELSE IF ~opened
                      THEN [t \in DOMAIN sess |->
                              IF t = s THEN Released("error", "PortAudioError")
                              ELSE IF sess[t].pc = "running"
                                   THEN Released("closed", "")
                                   ELSE sess[t]]
                      ELSE [sess EXCEPT ![s] =
                              [@ EXCEPT !.pc = "running",
                                        !.norm = Norm(st.amp_list),
                                        !.phases = [j \in 1..Len(st.f_list) |-> 0],
                                        !.t_cur = 0,
                                        !.wall = 0]]
        /\ UNCHANGED <<settings, attrs, chords, flat_indices, current_chord_idx,
                       base_freq, settings_popup, saves, save_error, tipvars>>

\* the rest of _play up to the with statement: np.concatenate of the three
\* lists (ValueError on an empty list), norm, phases = zeros, t_cur = 0, then
\* sd.OutputStream(...) opens and starts the stream or raises PortAudioError
T_OpenStream(s) ==
    LET st == sess[s]
    IN  /\ st.pc = "build"
        /\ st.i > Len(st.ratios)
        /\ \E opened \in BOOLEAN :
              sess' = [sess EXCEPT ![s] =
                         IF Len(st.ratios) = 0
                         THEN Released("error", "ValueError")
                         ELSE IF ~opened
                         THEN Released("error", "PortAudioError")
                         ELSE [@ EXCEPT !.pc = "running",
                                        !.norm = Norm(st.amp_list),
                                        !.phases = [j \in 1..Len(st.f_list) |-> 0],
                                        !.t_cur = 0,
                                        !.wall = 0]]
        /\ UNCHANGED <<settings, attrs, chords, flat_indices, current_chord_idx,
                       base_freq, settings_popup, saves, save_error, tipvars>>

\* the audio thread invokes the callback of an open stream
Callback(s, maxBlocks) ==
    /\ sess[s].pc = "running"
    /\ sess[s].blocks < maxBlocks
    /\ \E frames \in FrameCounts, status \in BOOLEAN :
          sess' = callback(sess, s, frames, status)
    /\ UNCHANGED <<settings, attrs, chords, flat_indices, current_chord_idx,
                   base_freq, settings_popup, saves, save_error, tipvars>>

\* 100 ms of real time pass for every thread inside sd.sleep
Tick ==
    /\ \E s \in Sessions : sess[s].pc = "running"
                           /\ sess[s].wall < SleepTicks(sess[s].duration)
    /\ sess' = [s \in Sessions |->
                  IF sess[s].pc = "running" /\ sess[s].wall < SleepTicks(sess[s].duration)
                  THEN [sess[s] EXCEPT !.wall = @ + 1]
                  ELSE sess[s]]
    /\ UNCHANGED <<settings, attrs, chords, flat_indices, current_chord_idx,
                   base_freq, settings_popup, saves, save_error, tipvars>>

\* a _play that opens the stream without the with block: sleep returns and
\* nothing closes the stream
T_Close_StreamLeftOpen(s) ==
    /\ sess[s].pc = "running"
    /\ sess[s].wall >= SleepTicks(sess[s].duration)
    /\ UNCHANGED vars

\* sd.sleep returns and the with block closes the stream; _play returns
T_Close(s) ==
    /\ sess[s].pc = "running"
    /\ sess[s].wall >= SleepTicks(sess[s].duration)
    /\ sess' = [sess EXCEPT ![s] = Released("closed", "")]
    /\ UNCHANGED <<settings, attrs, chords, flat_indices, current_chord_idx,
                   base_freq, settings_popup, saves, save_error, tipvars>>

----------------------------------------------------------------------------
(* ToolTip: one per widget.  Tk keeps the pending after() timers, whose ids *)
(* are never used twice, and the Toplevel windows.  The methods are        *)
(* operators on the pieces of state they touch: tt the tooltips, tm the     *)
(* pending timers, tl the windows per widget.                               *)

\* _unschedule: cancel the timer self._id names, if any, and forget it.
\* Cancelling an id whose timer has fired does nothing
_unschedule(tt, tm, w) ==
    IF tt[w]._id # 0
    THEN [tooltips |-> [tt EXCEPT ![w]._id = 0],
          timers   |-> tm \ {[id |-> tt[w]._id, w |-> w]}]
    ELSE [tooltips |-> tt, timers |-> tm]

\* _schedule: _unschedule, then self._id = widget.after(delay, self._show)
_schedule(tt, tm, w, new) ==
    LET u == _unschedule(tt, tm, w)
    IN  [tooltips |-> [u.tooltips EXCEPT ![w]._id = new],
         timers   |-> u.timers \cup {[id |-> new, w |-> w]}]

\* a _show without "if self.tw: return"
_show_NoGuard(tt, tl, w) ==
    [tooltips  |-> [tt EXCEPT ![w].tw = TRUE],
     toplevels |-> [tl EXCEPT ![w] = @ + 1]]

\* _show: create the tooltip window unless self.tw holds one
_show(tt, tl, w) ==
    IF tt[w].tw
    THEN [tooltips |-> tt, toplevels |-> tl]
    ELSE [tooltips  |-> [tt EXCEPT ![w].tw = TRUE],
          toplevels |-> [tl EXCEPT ![w] = @ + 1]]

\* _hide: _unschedule, then destroy the window self.tw holds, if any
_hide(tt, tm, tl, w) ==
    LET u == _unschedule(tt, tm, w)
    IN  IF tt[w].tw
        THEN [tooltips  |-> [u.tooltips EXCEPT ![w].tw = FALSE],
              timers    |-> u.timers,
              toplevels |-> [tl EXCEPT ![w] = @ - 1]]
        ELSE [tooltips |-> u.tooltips, timers |-> u.timers, toplevels |-> tl]

\* <Enter> on widget w
Enter(w) ==
    /\ last_after < MaxAfter
    /\ LET r == _schedule(tooltips, timers, w, last_after + 1)
       IN  /\ tooltips' = r.tooltips
           /\ timers' = r.timers
    /\ last_after' = last_after + 1
    /\ UNCHANGED <<toplevels, appvars>>

\* <Leave> on widget w
Leave(w) ==
    /\ LET r == _hide(tooltips, timers, toplevels, w)
       IN  /\ tooltips' = r.tooltips
           /\ timers' = r.timers
           /\ toplevels' = r.toplevels
    /\ UNCHANGED <<last_after, appvars>>

\* <ButtonPress> on widget w
ButtonPress(w) ==
    /\ LET r == _hide(tooltips, timers, toplevels, w)
       IN  /\ tooltips' = r.tooltips
           /\ timers' = r.timers
           /\ toplevels' = r.toplevels
    /\ UNCHANGED <<last_after, appvars>>

\* the delay of a pending timer is over: Tk drops the timer and calls _show
TimerExpiry(t) ==
    /\ t \in timers
    /\ timers' = timers \ {t}
    /\ LET r == _show(tooltips, toplevels, t.w)
       IN  /\ tooltips' = r.tooltips
           /\ toplevels' = r.toplevels
    /\ UNCHANGED <<last_after, appvars>>

----------------------------------------------------------------------------
(* Two bounded scenarios over the same actions.                            *)
(*   Spec         the whole application (triggers, settings popup, save),  *)
(*                a trigger being taken only once every earlier thread     *)
(*                has ended: sessions one after another;                    *)
(*   SpecOverlap  the triggers alone under the settings as loaded, a       *)
(*                trigger being taken at any time: sessions overlap.       *)
(* And a third scenario for the tooltips, which share no state with the    *)
(* rest:                                                                   *)
(*   SpecToolTip  the mouse and timer events on the widgets with a ToolTip. *)

Ended(s) == sess[s].pc \in {"closed", "error"}

\* the bound on sessions leaves room for one more
Room == Len(sess) < MaxSessions

\* the same, and every thread started so far has ended
RoomInTurn == Len(sess) < MaxTurns /\ \A s \in Sessions : Ended(s)

Next ==
    \/ NextChord(RoomInTurn)
    \/ ReplayChord(RoomInTurn)
    \/ ShowSettingsPopup
    \/ SaveSettings
    \/ DismissSaveError
    \/ \E s \in Sessions : T_ReadParams(s)
    \/ \E s \in Sessions : T_BuildRatio(s)
    \/ \E s \in Sessions : T_OpenStream(s)
    \/ \E s \in Sessions : Callback(s, MaxBlocks)
    \/ Tick
    \/ \E s \in Sessions : T_Close(s)

Spec == Init /\ [][Next]_vars

NextOverlap ==
    \/ NextChord(Room)
    \/ ReplayChord(Room)
    \/ \E s \in Sessions : T_ReadParams(s)
    \/ \E s \in Sessions : T_BuildRatio(s)
    \/ \E s \in Sessions : T_OpenStream(s)
    \/ \E s \in Sessions : Callback(s, MaxBlocksOverlap)
    \/ Tick
    \/ \E s \in Sessions : T_Close(s)

SpecOverlap == Init /\ [][NextOverlap]_vars

\* every timer that can be pending carries one of these
TimerIds == [id : 1..MaxAfter, w : Widgets]

NextToolTip ==
    \/ \E w \in Widgets : Enter(w)
    \/ \E w \in Widgets : Leave(w)
    \/ \E w \in Widgets : ButtonPress(w)
    \/ \E t \in TimerIds : TimerExpiry(t)

SpecToolTip == Init /\ [][NextToolTip]_vars

\* Scheduling: a started thread runs its next statement, real time passes for a
\* sleeping thread, and a sleep that is over returns.  Nothing obliges the user
\* to press a button or the device to ask for a block.
Fairness ==
    /\ WF_vars(Tick)
    /\ \A s \in 1..MaxSessions :
          /\ WF_vars(s \in Sessions /\ T_ReadParams(s))
          /\ WF_vars(s \in Sessions /\ T_BuildRatio(s))
          /\ WF_vars(s \in Sessions /\ T_OpenStream(s))
          /\ WF_vars(s \in Sessions /\ T_Close(s))

FairSpecOverlap == SpecOverlap /\ Fairness

----------------------------------------------------------------------------
(* Properties *)

Running(s) == sess[s].pc = "running"

\* C1: phase continuity.  From the state of any running session and for any
\* frame count N, two callbacks of N frames write the same 2N samples, and leave
\* the same phases and elapsed time, as one callback of 2N frames.
C1_PhaseContinuity ==
    \A s \in Sessions : Running(s) =>
        \A N \in FrameCounts :
            LET st    == sess[s]
                first == CallbackBody(st, N, FALSE)
                twice == CallbackBody(first, N, FALSE)
                once  == CallbackBody(st, 2 * N, FALSE)
            IN  /\ first.out \o twice.out = once.out
                /\ twice.phases = once.phases
                /\ twice.t_cur = once.t_cur

\* a running session that has rendered a block, with a phase off zero and a
\* finite norm: the comparison starts from persisted state
C1_Witness ==
    \E s \in Sessions :
        /\ Running(s)
        /\ sess[s].blocks >= 1
        /\ sess[s].norm.k = "num"
        /\ \E j \in DOMAIN sess[s].phases : sess[s].phases[j] # 0
        /\ \E i \in DOMAIN sess[s].out : sess[s].out[i].v # 0

\* what the history of one session's render state is made of
RenderStateOf(st) == <<st.phases, st.t_cur, st.f_list, st.amp_list, st.tau_list, st.norm>>

\* this step is an invocation of the callback of session s
CallbackStep(s) == sess'[s].blocks = sess[s].blocks + 1

\* C2: isolation of concurrent sessions.  A callback of session s computes its
\* result from the closure of s alone and leaves the render state and partial
\* set of every other session as they were; and the render state of a session
\* changes only in a step of its own callback or of its own thread.
C2_SessionIsolation ==
    [][\A s \in Sessions :
          /\ CallbackStep(s) =>
                /\ \E frames \in FrameCounts, status \in BOOLEAN :
                      sess'[s] = CallbackBody(sess[s], frames, status)
                /\ \A t \in Sessions \ {s} :
                      RenderStateOf(sess'[t]) = RenderStateOf(sess[t])
          /\ RenderStateOf(sess'[s]) # RenderStateOf(sess[s]) =>
                \/ CallbackStep(s)
                \/ sess'[s].pc # sess[s].pc
                \/ sess'[s].i # sess[s].i]_vars

\* two sessions with open streams that have both rendered, from different phases
C2_Witness ==
    \E s, t \in Sessions :
        /\ s # t
        /\ Running(s) /\ Running(t)
        /\ sess[s].blocks >= 1 /\ sess[t].blocks >= 1
        /\ sess[s].phases # sess[t].phases

\* the partial set the attributes and base_freq of the trigger would give
AsTriggered(st) ==
    LET at == st.trig.attrs
        rp(x) == RatioPartials(at, st.trig.base_freq, EvalRatio(st.ratios[x]), 0,
                               at.rolloff_coeff, at.decay_time, at.decay_exponent, <<>>)
    IN  [pure |-> Concat([x \in 1..Len(st.ratios) |-> rp(x).pure]),
         amp  |-> Concat([x \in 1..Len(st.ratios) |-> rp(x).amp]),
         tau  |-> Concat([x \in 1..Len(st.ratios) |-> rp(x).tau])]

\* C3: a session uses the base frequency and synthesis parameters that were in
\* effect when play_chord was called: its frequencies before jitter, its
\* amplitudes, its decay constants and its jitter width are those of the trigger.
C3_ParamsAsTriggered ==
    \A s \in Sessions : Running(s) =>
        /\ sess[s].pure_list = AsTriggered(sess[s]).pure
        /\ sess[s].amp_list = AsTriggered(sess[s]).amp
        /\ sess[s].tau_list = AsTriggered(sess[s]).tau
        /\ sess[s].jitter = sess[s].trig.attrs.jitter

HasInvalidRatio(rs) == \E x \in DOMAIN rs : ~EvalRatio(rs[x]).ok

\* C4: a chord with an invalid ratio expression is refused by play_chord itself:
\* no session thread, no render state and no partial ever exists for it.
C4_InvalidRatioRaisedAtTrigger ==
    \A s \in Sessions : ~HasInvalidRatio(sess[s].ratios)

\* C5: a trigger never stops, shortens or restarts a running session.  A running
\* session leaves "running" only by closing, and only once its own sleep of
\* duration plus margin has passed; until then its clock and elapsed time do
\* not go back and its partial set stays; a step that starts a session leaves
\* every running session as it was.
C5_RunsToCompletion ==
    [][\A s \in Sessions : Running(s) =>
          /\ sess'[s].pc \in {"running", "closed"}
          /\ sess'[s].pc = "closed" => sess[s].wall >= SleepTicks(sess[s].duration)
          /\ sess'[s].pc = "running" =>
                /\ sess'[s].wall >= sess[s].wall
                /\ sess'[s].t_cur >= sess[s].t_cur
                /\ sess'[s].blocks >= sess[s].blocks
                /\ sess'[s].duration = sess[s].duration
                /\ sess'[s].f_list = sess[s].f_list
          /\ Len(sess') > Len(sess) => sess'[s] = sess[s]]_vars

\* a trigger was taken while a session was rendering: two streams are open, the
\* older one in the middle of its sleep
C5_Witness ==
    \E s, t \in Sessions :
        /\ s < t
        /\ Running(s) /\ Running(t)
        /\ sess[s].wall > sess[t].wall
        /\ sess[s].wall < SleepTicks(sess[s].duration)

\* C6: no clipping.  For every partial set _play has built, norm times the sum
\* of the amplitudes is at most target_peak, and every sample the callback has
\* written is a number of magnitude at most target_peak.
C6_NoClip ==
    \A s \in Sessions : Running(s) =>
        /\ sess[s].norm.k = "num"
        /\ sess[s].norm.v * SeqSum(sess[s].amp_list) <= TargetPeak * NormScale
        /\ \A i \in DOMAIN sess[s].out :
              /\ sess[s].out[i].k = "num"
              /\ sess[s].out[i].v <= TargetPeak
              /\ sess[s].out[i].v >= 0 - TargetPeak

\* the part of C6 that the code keeps: the same bound for the partial sets that
\* are not empty
NoClipWithPartials ==
    \A s \in Sessions : (Running(s) /\ sess[s].amp_list # <<>>) =>
        /\ sess[s].norm.k = "num"
        /\ sess[s].norm.v * SeqSum(sess[s].amp_list) <= TargetPeak * NormScale
        /\ \A i \in DOMAIN sess[s].out :
              /\ sess[s].out[i].k = "num"
              /\ sess[s].out[i].v <= TargetPeak
              /\ sess[s].out[i].v >= 0 - TargetPeak

\* C7: a request that finds n_harmonics <= 0 ends in an error before a stream
\* is opened: no stream is ever open for it.
C7_ZeroHarmonicsRejected ==
    \A s \in Sessions :
        (\E x \in DOMAIN sess[s].hs : sess[s].hs[x] <= 0) => ~Running(s)

\* C8: size and layout of the partial set.  When the loop found n_harmonics = H
\* >= 1 at each of the R ratios, the four vectors have R*H entries, and entry
\* (r-1)*H + k is harmonic k of ratio r: its amplitude is 1/k**p, its decay
\* constant tau0/k**d, its frequency within jitter of the stretched harmonic.
C8_PartialSetLayout ==
    \A s \in Sessions : Running(s) =>
        LET st == sess[s]
            R  == Len(st.ratios)
            H  == st.hs[1]
        IN  (H >= 1 /\ \A x \in 1..R : st.hs[x] = H) =>
               /\ Len(st.hs) = R
               /\ Len(st.f_list) = R * H
               /\ Len(st.amp_list) = R * H
               /\ Len(st.tau_list) = R * H
               /\ Len(st.phases) = R * H
               /\ \A r \in 1..R : \A k \in 1..H :
                     LET e == (r - 1) * H + k
                     IN  /\ st.amp_list[e] = Amplitude(k, st.p)
                         /\ st.tau_list[e] = DecayConstant(k, st.tau0, st.d)
                         /\ st.f_list[e] - st.pure_list[e] <= st.jitter
                         /\ st.pure_list[e] - st.f_list[e] <= st.jitter

\* an open stream on a chord of two ratios with two harmonics each
C8_Witness ==
    \E s \in Sessions :
        /\ Running(s)
        /\ Len(sess[s].ratios) = 2
        /\ sess[s].hs = <<2, 2>>
        /\ Len(sess[s].f_list) = 4

\* C10: an underrun status is not fatal.  A callback invoked with status set
\* writes the full block and advances phases and elapsed time exactly as the
\* same callback without status, and its stream stays open.
C10_StatusNotFatal ==
    [][\A s \in Sessions :
          (CallbackStep(s) /\ sess'[s].lastStatus) =>
             \E frames \in FrameCounts :
                /\ sess'[s] = [CallbackBody(sess[s], frames, FALSE)
                                  EXCEPT !.lastStatus = TRUE]
                /\ Len(sess'[s].out) = frames
                /\ sess'[s].t_cur = sess[s].t_cur + frames
                /\ sess'[s].pc = "running"]_vars

\* a stream that is still open after a callback with status, the block written
C10_Witness ==
    \E s \in Sessions :
        /\ Running(s)
        /\ sess[s].lastStatus
        /\ sess[s].blocks >= 1
        /\ sess[s].out # <<>>
        /\ sess[s].t_cur > 0

DeviceFailure(s) ==
    sess'[s].err = "PortAudioError" /\ sess[s].err # "PortAudioError"

\* C11: a device failure ends its own session only.  The step in which session
\* s fails to open the device leaves every other session, the list of sessions
\* and the state of the application as they were; and a session that is running
\* beside a failed one still runs on to the close of its own stream.
C11_DeviceFailureIsolated ==
    /\ [][\A s \in Sessions : DeviceFailure(s) =>
              /\ Len(sess') = Len(sess)
              /\ \A t \in Sessions \ {s} : sess'[t] = sess[t]
              /\ UNCHANGED <<settings, attrs, chords, flat_indices,
                             current_chord_idx, base_freq, settings_popup>>]_vars
    /\ \A s, t \in 1..MaxSessions :
          (/\ s \in Sessions /\ t \in Sessions /\ s # t
           /\ sess[s].err = "PortAudioError"
           /\ Running(t))
             ~> (t \in Sessions /\ sess[t].pc = "closed")

\* a session died of the device while a session triggered after it has its
\* stream open and has rendered a block
C11_Witness ==
    \E s, t \in Sessions :
        /\ s < t
        /\ sess[s].pc = "error"
        /\ sess[s].err = "PortAudioError"
        /\ Running(t)
        /\ sess[t].blocks >= 1
        /\ sess[t].t_cur > 0

\* C12: every partial of a built partial set has an amplitude and a decay
\* constant above zero and a frequency above zero that is not below its
\* harmonic pitch * k, with or without jitter.
C12_PartialsPositive ==
    \A s \in Sessions : Running(s) =>
        \A e \in DOMAIN sess[s].f_list :
            /\ sess[s].amp_list[e] > 0
            /\ sess[s].tau_list[e] > 0
            /\ sess[s].f_list[e] > 0
            /\ sess[s].f_list[e] >= sess[s].harm_list[e]

\* the part of C12 the code keeps: amplitudes and decay constants above zero,
\* and without jitter a frequency not below the harmonic
PartialsPositiveWithoutJitter ==
    \A s \in Sessions : Running(s) =>
        \A e \in DOMAIN sess[s].f_list :
            /\ sess[s].amp_list[e] > 0
            /\ sess[s].tau_list[e] > 0
            /\ sess[s].jitter = 0 => sess[s].f_list[e] >= sess[s].harm_list[e]

\* C13: the phase of every partial is 0 when the stream opens and lies in
\* [0, 2*pi), that is in 0..fs-1 units of 1/fs turn, after every callback.
C13_PhaseInRange ==
    \A s \in Sessions : Running(s) =>
        /\ Len(sess[s].phases) = Len(sess[s].f_list)
        /\ \A j \in DOMAIN sess[s].phases :
              /\ sess[s].blocks = 0 => sess[s].phases[j] = 0
              /\ sess[s].phases[j] >= 0
              /\ sess[s].phases[j] < sess[s].fs

\* after two callbacks a partial has gone through more than one full turn and
\* its phase has come back below 2*pi, off zero
C13_Witness ==
    \E s \in Sessions :
        /\ Running(s)
        /\ sess[s].blocks = 2
        /\ \E j \in DOMAIN sess[s].phases :
              /\ sess[s].f_list[j] * sess[s].t_cur > sess[s].fs
              /\ sess[s].phases[j] # 0
              /\ sess[s].phases[j] < sess[s].fs

\* C14: the elapsed time of a session is 0 when its stream opens, never goes
\* back, stays as it is in every step that is not its callback, and in a
\* callback grows by exactly the frames of the block written (in frames, that
\* is frames / fs seconds): it is the sum of the frame counts so far.
C14_ElapsedIsSumOfFrames ==
    /\ [](\A s \in Sessions : (Running(s) /\ sess[s].blocks = 0) => sess[s].t_cur = 0)
    /\ [][\A s \in Sessions : (Running(s) /\ sess'[s].pc = "running") =>
              /\ sess'[s].t_cur >= sess[s].t_cur
              /\ ~CallbackStep(s) => sess'[s].t_cur = sess[s].t_cur
              /\ CallbackStep(s) =>
                    /\ Len(sess'[s].out) \in FrameCounts
                    /\ sess'[s].t_cur = sess[s].t_cur + Len(sess'[s].out)]_vars

\* two callbacks of different lengths, 1 and 2 frames, have added up to 3
C14_Witness ==
    \E s \in Sessions :
        /\ Running(s)
        /\ sess[s].blocks = 2
        /\ sess[s].t_cur = 3
        /\ Len(sess[s].out) = 2

\* C15: a session stops when it has rendered its duration.  In the step that
\* closes the stream of a session after its sleep, the elapsed time the
\* callbacks have rendered is at least duration.
C15_StopsAfterDurationRendered ==
    [][\A s \in Sessions : (Running(s) /\ sess'[s].pc = "closed") =>
          sess[s].t_cur >= DurationFrames(sess[s].duration, sess[s].fs)]_vars

\* what the code keeps of C15: the stream closes when the wall clock of the
\* sleep has reached duration plus the margin, whatever has been rendered
StopsAfterSleep ==
    [][\A s \in Sessions : (Running(s) /\ sess'[s].pc = "closed") =>
          sess[s].wall = sess[s].duration + MarginTicks]_vars

\* the partial set and normalisation constant of a session
PartialSetOf(st) == <<st.f_list, st.amp_list, st.tau_list, st.norm, st.jitter>>

\* C16: jitter is drawn once per session.  A callback changes the phases, the
\* elapsed time and the output buffer of its session (and the count and status
\* the model keeps of it) and nothing else; as long as the stream is open the
\* frequencies, amplitudes, decay constants and norm stay what the build made
\* them, the same for every block.
C16_JitterOncePerSession ==
    [][\A s \in Sessions : (Running(s) /\ sess'[s].pc = "running") =>
          /\ PartialSetOf(sess'[s]) = PartialSetOf(sess[s])
          /\ CallbackStep(s) =>
                sess'[s] = [sess[s] EXCEPT !.phases = sess'[s].phases,
                                           !.t_cur = sess'[s].t_cur,
                                           !.out = sess'[s].out,
                                           !.blocks = sess'[s].blocks,
                                           !.lastStatus = sess'[s].lastStatus]]_vars

\* a session built with jitter, its frequencies off the unperturbed ones, that
\* has rendered two blocks
C16_Witness ==
    \E s \in Sessions :
        /\ Running(s)
        /\ sess[s].jitter > 0
        /\ sess[s].f_list # sess[s].pure_list
        /\ sess[s].blocks = 2

SaveFailure == save_error' /\ ~save_error

\* C18: a failed write of the settings file changes nothing.  The step in
\* which the write fails leaves settings, attributes, database and grid as
\* they were and the popup open; and these change only in the step of a
\* successful write, all together, the popup closing with it.
C18_FailedSaveChangesNothing ==
    /\ [][SaveFailure =>
            /\ settings_popup /\ settings_popup'
            /\ UNCHANGED <<settings, attrs, chords, flat_indices, saves>>]_vars
    /\ [][(\/ settings' # settings
           \/ attrs' # attrs
           \/ chords' # chords
           \/ flat_indices' # flat_indices) =>
            /\ ~SaveFailure
            /\ settings_popup /\ ~settings_popup'
            /\ saves' = saves + 1
            /\ attrs' = settings'
            /\ chords' = ChordDatabases[settings'.chord_database_name]]_vars
    /\ [](save_error => settings_popup)

\* the error box is up over the open popup, nothing replaced
C18_Witness ==
    /\ save_error
    /\ settings_popup
    /\ saves = 0
    /\ settings = DefaultSettings
    /\ attrs = DefaultSettings
    /\ chords = ChordDatabases[DefaultSettings.chord_database_name]

\* the pending show timers of the tooltip of widget w
TimersOf(w) == {t \in timers : t.w = w}

\* C19: a ToolTip has at most one tooltip window and at most one pending show
\* timer, whatever the sequence of Enter, Leave, ButtonPress and timer expiry;
\* and right after a Leave or a ButtonPress it has neither.
C19_ToolTipAtMostOne ==
    /\ [](\A w \in Widgets :
             /\ toplevels[w] <= 1
             /\ Cardinality(TimersOf(w)) <= 1)
    /\ [][\A w \in Widgets : (Leave(w) \/ ButtonPress(w)) =>
             /\ toplevels'[w] = 0
             /\ \A t \in timers' : t.w # w
             /\ ~tooltips'[w].tw
             /\ tooltips'[w]._id = 0]_vars

\* the window of a tooltip is up and a show timer is pending for it as well:
\* Enter, the timer expires, Enter again
C19_Witness ==
    \E w \in Widgets :
        /\ toplevels[w] = 1
        /\ tooltips[w].tw
        /\ Cardinality(TimersOf(w)) = 1
        /\ last_after >= 2

====
